---------------------------- MODULE Spec2Model ----------------------------
(***************************************************************************)
(* A model of the track pipeline of spotify_representative_sampler:        *)
(* src/app.py (web entry point) and src/get_representative_playlist.py     *)
(* (command-line entry point).                                             *)
(*                                                                         *)
(* Text is a sequence of one-character strings.  The remote service is     *)
(* part of the state: the saved-tracks library, the artist catalog and     *)
(* the playlist that is being filled.  Every call to the remote service    *)
(* is one step; it either answers or raises.                               *)
(***************************************************************************)
EXTENDS Integers, Sequences, FiniteSets, TLC

(***************************************************************************)
(* Text primitives (the Python str methods the code uses).                 *)
(***************************************************************************)
UpperCase == <<"A","B","C","D","E","F","G","H","I","J","K","L","M",
               "N","O","P","Q","R","S","T","U","V","W","X","Y","Z">>
LowerCase == <<"a","b","c","d","e","f","g","h","i","j","k","l","m",
               "n","o","p","q","r","s","t","u","v","w","x","y","z">>

\* str.lower() on one character
LowerChar(c) ==
  IF \E i \in 1..Len(UpperCase) : UpperCase[i] = c
    THEN LowerCase[CHOOSE i \in 1..Len(UpperCase) : UpperCase[i] = c]
    ELSE c

\* str.lower()
Lower(s) == [i \in 1..Len(s) |-> LowerChar(s[i])]

\* the characters str.strip() removes
IsSpace(c) == c \in {" ", "\t", "\n", "\r"}

RECURSIVE LStrip(_)
LStrip(s) == IF s # <<>> /\ IsSpace(Head(s)) THEN LStrip(Tail(s)) ELSE s

RECURSIVE RStrip(_)
RStrip(s) ==
  IF s # <<>> /\ IsSpace(s[Len(s)]) THEN RStrip(SubSeq(s, 1, Len(s) - 1)) ELSE s

\* str.strip()
Strip(s) == RStrip(LStrip(s))

\* needle in hay  (the empty needle is in every text)
Contains(hay, needle) ==
  \E i \in 0..(Len(hay) - Len(needle)) :
     SubSeq(hay, i + 1, i + Len(needle)) = needle

\* sep.join(parts)
RECURSIVE Join(_, _)
Join(sep, parts) ==
  IF parts = <<>> THEN <<>>
  ELSE IF Len(parts) = 1 THEN parts[1]
  ELSE parts[1] \o sep \o Join(sep, Tail(parts))

\* s.split(sep) for a one-character sep: always at least one segment
RECURSIVE Split(_, _)
Split(s, sep) ==
  IF \A i \in 1..Len(s) : s[i] # sep THEN <<s>>
  ELSE LET k == CHOOSE i \in 1..Len(s) :
                  s[i] = sep /\ \A j \in 1..(i - 1) : s[j] # sep
       IN  <<SubSeq(s, 1, k - 1)>> \o Split(SubSeq(s, k + 1, Len(s)), sep)

Min(a, b) == IF a < b THEN a ELSE b

Range(f) == {f[i] : i \in DOMAIN f}

\* decimal text of a natural number (used to write test data only)
DigitChars == <<"0","1","2","3","4","5","6","7","8","9">>
RECURSIVE Digits(_)
Digits(k) ==
  IF k < 10 THEN <<DigitChars[k + 1]>>
  ELSE Digits(k \div 10) \o <<DigitChars[(k % 10) + 1]>>


\* reversed(list)
Reverse(s) == [i \in 1..Len(s) |-> s[Len(s) + 1 - i]]

\* the elements of a finite set of integers in increasing order
RECURSIVE SortInts(_)
SortInts(S) ==
  IF S = {} THEN <<>>
  ELSE LET m == CHOOSE x \in S : \A y \in S : x <= y
       IN  <<m>> \o SortInts(S \ {m})

\* dict.get(key, default): a dict is a function, a missing key is a key
\* outside its domain
Get(d, key, default) == IF key \in DOMAIN d THEN d[key] ELSE default

(***************************************************************************)
(* Program constants.                                                      *)
(***************************************************************************)
PageLimit == 50          \* get_liked_tracks(sp, limit=50)
ArtistBatch == 50        \* chunker(list(all_artist_ids), 50)
AddBatch == 100          \* range(0, len(uris), 100)
NoneId == 0              \* an artist id that is None (falsy), as for local files

(***************************************************************************)
(* Bounds of the model.                                                    *)
(***************************************************************************)
MaxPages == 2            \* libraries hold up to MaxPages full pages, +/- 1 item

(***************************************************************************)
(* Test data: the remote library and the remote artist catalog.            *)
(***************************************************************************)
GenrePool == << <<"j","a","z","z">>, <<"r","o","c","k">>,
                <<"C","o","o","l">>, <<"b","o","p">> >>

GenreRank(g) == CHOOSE i \in 1..Len(GenrePool) : GenrePool[i] = g

Shapes == {"solo", "duo", "shared", "anon", "mixed"}

\* the artists of the i-th saved track
GenArtists(i, shape) ==
  CASE shape = "solo"   -> << [name |-> <<"a">> \o Digits(i), id |-> i] >>
    [] shape = "duo"    -> << [name |-> <<"a">> \o Digits(i), id |-> i],
                              [name |-> <<"B">> \o Digits(i + 1), id |-> i + 1] >>
    [] shape = "shared" -> << [name |-> <<"M","i","l","e","s">>, id |-> ((i - 1) % 3) + 1],
                              [name |-> <<"M","i","l","e","s">>, id |-> ((i - 1) % 3) + 1] >>
    [] shape = "anon"   -> << [name |-> <<>>, id |-> NoneId] >>
    [] shape = "mixed"  -> << [name |-> <<"x">>, id |-> NoneId],
                              [name |-> <<>>, id |-> (i % 4) + 1],
                              [name |-> <<"y"," ","z">>, id |-> i + 4] >>

\* the album of the i-th saved track: the release_date key may be missing
GenAlbum(i) ==
  CASE i % 3 = 0 -> [name |-> <<"A","l","b">> \o Digits(i)]
    [] i % 3 = 1 -> [name |-> <<"L","P">>,
                     release_date |-> <<"2","0","0","1","-","0","5","-","1","2">>]
    [] i % 3 = 2 -> [name |-> <<"J","a","z","z"," ","b","o","x">>, release_date |-> <<>>]

\* the i-th item of the saved-tracks collection
GenItem(i, shape) ==
  [track |-> [name          |-> <<"s","o","n","g">> \o Digits(i),
              uri           |-> <<"u">> \o Digits(i),
              external_urls |-> [spotify |-> <<"h","/">> \o Digits(i)],
              artists       |-> GenArtists(i, shape),
              album         |-> GenAlbum(i)]]

GenLibrary(len, shape) == [i \in 1..len |-> GenItem(i, shape)]

LibSizes ==
  {k * PageLimit + d : k \in 0..MaxPages, d \in {-1, 0, 1}} \cap Nat

\* The remote answer for one artist id: no record at all, a record without
\* a genres field, or a record with genres.
CatalogVariants == {0, 1}
CatalogRecord(a, variant) ==
  CASE (a + variant) % 4 = 0 -> <<>>
    [] (a + variant) % 4 = 1 -> << [id |-> a] >>
    [] (a + variant) % 4 = 2 -> << [id |-> a, genres |-> <<GenrePool[(a % 4) + 1]>>] >>
    [] (a + variant) % 4 = 3 -> << [id |-> a, genres |-> <<GenrePool[(a % 4) + 1],
                                                          GenrePool[((a + 1) % 4) + 1],
                                                          GenrePool[(a % 4) + 1]>>] >>

(***************************************************************************)
(* The remote service.                                                     *)
(***************************************************************************)
\* sp.current_user_saved_tracks(limit, offset)["items"]
RemotePage(lib, limit, off) == SubSeq(lib, off + 1, Min(off + limit, Len(lib)))

\* sp.artists(batch)["artists"]: the records of the ids that have one
RECURSIVE RemoteArtists(_, _)
RemoteArtists(batch, variant) ==
  IF batch = <<>> THEN <<>>
  ELSE CatalogRecord(Head(batch), variant) \o RemoteArtists(Tail(batch), variant)

(***************************************************************************)
(* Order of iteration of a Python set: fixed within a process by the       *)
(* hashes of its elements, unspecified otherwise.                          *)
(***************************************************************************)
Seeds == {"asc", "desc", "split"}

OrderInts(S, seed) ==
  LET up == SortInts(S)
  IN  CASE seed = "asc"   -> up
        [] seed = "desc"  -> Reverse(up)
        [] seed = "split" -> SelectSeq(up, LAMBDA x : x % 2 = 0)
                               \o Reverse(SelectSeq(up, LAMBDA x : x % 2 = 1))

\* list(set_of_artist_ids)
ListOfIds(S, seed) == OrderInts(S, seed)

\* list(set_of_genres)
ListOfGenres(S, seed) ==
  LET ranks == OrderInts({GenreRank(g) : g \in S}, seed)
  IN  [i \in 1..Len(ranks) |-> GenrePool[ranks[i]]]

(***************************************************************************)
(* State.                                                                  *)
(***************************************************************************)
VARIABLES
  library,           \* remote: the saved-tracks collection
  catalog,           \* remote: which artist catalog answers sp.artists
  hseed,             \* this process's set iteration order
  entry,             \* "web" (app.py) or "cli" (get_representative_playlist.py)
  pc,                \* where the program is
  offset,            \* get_liked_tracks: offset
  all_items,         \* get_liked_tracks: all_items
  liked_tracks,      \* get_liked_tracks: liked_tracks
  artist_list,       \* get_liked_tracks: list(all_artist_ids)
  pos,               \* chunker: pos
  artist_genre_map,  \* get_liked_tracks: artist_genre_map
  page_calls,        \* log of the saved-tracks requests of this call
  artist_calls,      \* log of the artist lookups of this call
  run,               \* how many times get_liked_tracks has been called
  first_result,      \* what the first call returned
  keywords,          \* the keyword list handed to filter_tracks_by_keywords
  n,                 \* the count handed to select_representative_subset
  filtered_tracks,   \* the result of filter_tracks_by_keywords
  selected_tracks,   \* the result of select_representative_subset
  playlist_name,     \* create_playlist_for_tracks: playlist_name
  user_id,           \* create_playlist_for_tracks: user_id
  playlist,          \* create_playlist_for_tracks: playlist
  uris,              \* create_playlist_for_tracks: uris
  i_add,             \* create_playlist_for_tracks: i
  remote_playlists,  \* remote: the playlists of the user
  pl_calls,          \* log of the calls create_playlist_for_tracks made
  form,              \* web: request.form; cli: the lines typed at the prompts
  session,           \* web: the Flask session
  reply,             \* what the invocation answered
  requests,          \* how many POST requests the web application has served
  history,           \* how each pipeline invocation ended
  csv_file           \* cli: the file export_to_csv wrote

envVars   == <<library, catalog, entry>>
fetchVars == <<offset, all_items, liked_tracks, artist_list, pos,
               artist_genre_map, page_calls, artist_calls>>
pickVars  == <<keywords, n, filtered_tracks, selected_tracks>>
plVars    == <<playlist_name, user_id, playlist, uris, i_add, remote_playlists,
               pl_calls>>
webVars   == <<form, session, reply, requests, history, csv_file>>

\* nothing of create_playlist_for_tracks has run
IdlePlaylist ==
  /\ playlist_name = <<>>
  /\ user_id = ""
  /\ playlist = <<>>
  /\ uris = <<>>
  /\ i_add = 0
  /\ remote_playlists = <<>>
  /\ pl_calls = <<>>

\* no request has been served, nothing has been typed, no file written
IdleWeb ==
  /\ form = <<>>
  /\ session = <<>>
  /\ reply = <<>>
  /\ requests = 0
  /\ history = <<>>
  /\ csv_file = <<>>

(***************************************************************************)
(* get_liked_tracks.                                                       *)
(***************************************************************************)
\* a fetcher that advances one item short of a page
NextOffsetShort(off, limit) == off + limit - 1

\* offset += limit
NextOffset(off, limit) == off + limit

\* [artist["name"] for artist in track["artists"] if artist["name"]]
ArtistNames(arts) ==
  LET kept == SelectSeq(arts, LAMBDA a : a.name # <<>>)
  IN  [i \in 1..Len(kept) |-> kept[i].name]

\* [artist["id"] for artist in track["artists"] if artist["id"]]
ArtistIds(arts) ==
  LET kept == SelectSeq(arts, LAMBDA a : a.id # NoneId)
  IN  [i \in 1..Len(kept) |-> kept[i].id]

\* release_date.split("-")[0] if release_date else ""
ReleaseYear(release_date) ==
  IF release_date # <<>> THEN Split(release_date, "-")[1] ELSE <<>>

\* the dict appended to liked_tracks for one item; only app.py stores "url"
BuildTrack(item, who) ==
  LET track        == item.track
      release_date == Get(track.album, "release_date", <<>>)
      common == [name         |-> track.name,
                 artists      |-> ArtistNames(track.artists),
                 artist_ids   |-> ArtistIds(track.artists),
                 album        |-> track.album.name,
                 release_date |-> release_date,
                 release_year |-> ReleaseYear(release_date),
                 uri          |-> track.uri]
  IN  IF who = "web" THEN common @@ ("url" :> track.external_urls.spotify)
                     ELSE common

\* all_artist_ids after the loop over all_items
AllArtistIds(tracks) ==
  UNION {Range(tracks[i].artist_ids) : i \in 1..Len(tracks)}

\* a chunker whose slices run one element into the next slice
ChunkOverlapping(seq, at, size) ==
  SubSeq(seq, at + 1, Min(at + size + 1, Len(seq)))

\* seq[pos: pos + size]
Chunk(seq, at, size) == SubSeq(seq, at + 1, Min(at + size, Len(seq)))

\* an enricher that keeps only the map of the batch at hand
RECURSIVE RecordGenresPerBatch(_, _)
RecordGenresPerBatch(map, response) ==
  IF response = <<>> THEN <<>>
  ELSE (Head(response).id :> Get(Head(response), "genres", <<>>))
         @@ RecordGenresPerBatch(map, Tail(response))

\* for artist in response["artists"]:
\*     artist_genre_map[artist["id"]] = artist.get("genres", [])
RECURSIVE RecordGenres(_, _)
RecordGenres(map, response) ==
  IF response = <<>> THEN map
  ELSE RecordGenres((Head(response).id :> Get(Head(response), "genres", <<>>)) @@ map,
                    Tail(response))

\* genres_for_track after the loop over track["artist_ids"]
GenresForTrack(track, map) ==
  UNION {Range(Get(map, track.artist_ids[k], <<>>)) : k \in 1..Len(track.artist_ids)}

\* track["genres"] = list(genres_for_track), for every track
WithGenres(tracks, map, seed) ==
  [i \in 1..Len(tracks) |->
     ("genres" :> ListOfGenres(GenresForTrack(tracks[i], map), seed)) @@ tracks[i]]

\* the call of get_liked_tracks(sp): the state at its first line
EnterFetch ==
  /\ offset' = 0
  /\ all_items' = <<>>
  /\ liked_tracks' = <<>>
  /\ artist_list' = <<>>
  /\ pos' = 0
  /\ artist_genre_map' = <<>>
  /\ page_calls' = <<>>
  /\ artist_calls' = <<>>

\* one turn of "while True": the request answers
FetchPage ==
  /\ pc = "page"
  /\ LET items == RemotePage(library, PageLimit, offset)
     IN  /\ page_calls' = Append(page_calls,
                                 [limit |-> PageLimit, offset |-> offset,
                                  count |-> Len(items)])
         /\ IF items = <<>>
              THEN /\ pc' = "build"
                   /\ UNCHANGED <<all_items, offset>>
              ELSE /\ pc' = "page"
                   /\ all_items' = all_items \o items
                   /\ offset' = NextOffset(offset, PageLimit)
  /\ UNCHANGED <<envVars, hseed, liked_tracks, artist_list, pos,
                 artist_genre_map, artist_calls, run, first_result, pickVars, plVars, webVars>>

\* sp.current_user_saved_tracks raises
FetchPageRaises ==
  /\ pc = "page"
  /\ pc' = "raised"
  /\ page_calls' = Append(page_calls,
                          [limit |-> PageLimit, offset |-> offset, count |-> -1])
  /\ UNCHANGED <<envVars, hseed, offset, all_items, liked_tracks, artist_list,
                 pos, artist_genre_map, artist_calls, run, first_result, pickVars, plVars, webVars>>

\* the loop over all_items, up to the first turn of the chunker loop
BuildTracks ==
  /\ pc = "build"
  /\ liked_tracks' = [i \in 1..Len(all_items) |-> BuildTrack(all_items[i], entry)]
  /\ artist_list' = ListOfIds(AllArtistIds(liked_tracks'), hseed)
  /\ artist_genre_map' = <<>>
  /\ pos' = 0
  /\ pc' = "artists"
  /\ UNCHANGED <<envVars, hseed, offset, all_items, page_calls, artist_calls,
                 run, first_result, pickVars, plVars, webVars>>

\* one turn of "for batch in chunker(...)": the lookup answers
LookupBatch ==
  /\ pc = "artists"
  /\ pos < Len(artist_list)
  /\ LET batch == Chunk(artist_list, pos, ArtistBatch)
     IN  /\ artist_calls' = Append(artist_calls, batch)
         /\ artist_genre_map' =
              RecordGenres(artist_genre_map, RemoteArtists(batch, catalog))
  /\ pos' = pos + ArtistBatch
  /\ UNCHANGED <<envVars, hseed, pc, offset, all_items, liked_tracks,
                 artist_list, page_calls, run, first_result, pickVars, plVars, webVars>>

\* sp.artists raises, or the loop over its response does (an entry of the
\* response that is None has no "id")
LookupRaises ==
  /\ pc = "artists"
  /\ pos < Len(artist_list)
  /\ artist_calls' = Append(artist_calls, Chunk(artist_list, pos, ArtistBatch))
  /\ pc' = "raised"
  /\ UNCHANGED <<envVars, hseed, offset, all_items, liked_tracks, artist_list,
                 pos, artist_genre_map, page_calls, run, first_result, pickVars, plVars, webVars>>

\* the loop that adds genres to each track, and the return
AttachGenres ==
  /\ pc = "artists"
  /\ pos >= Len(artist_list)
  /\ liked_tracks' = WithGenres(liked_tracks, artist_genre_map, hseed)
  /\ pc' = "fetched"
  /\ UNCHANGED <<envVars, hseed, offset, all_items, artist_list, pos,
                 artist_genre_map, page_calls, artist_calls, run, first_result, pickVars, plVars, webVars>>

\* get_liked_tracks is called again, possibly by another process, against
\* the same library and catalog
FetchAgain ==
  /\ pc = "fetched"
  /\ run = 1
  /\ run' = 2
  /\ first_result' = liked_tracks
  /\ hseed' \in Seeds
  /\ EnterFetch
  /\ pc' = "page"
  /\ UNCHANGED <<envVars, pickVars, plVars, webVars>>

InitFetch ==
  /\ library \in {GenLibrary(len, shape) : len \in LibSizes, shape \in Shapes}
  /\ catalog \in CatalogVariants
  /\ hseed \in Seeds
  /\ entry \in {"web", "cli"}
  /\ pc = "page"
  /\ offset = 0
  /\ all_items = <<>>
  /\ liked_tracks = <<>>
  /\ artist_list = <<>>
  /\ pos = 0
  /\ artist_genre_map = <<>>
  /\ page_calls = <<>>
  /\ artist_calls = <<>>
  /\ run = 1
  /\ first_result = <<>>
  /\ keywords = <<>>
  /\ n = 0
  /\ filtered_tracks = <<>>
  /\ selected_tracks = <<>>
  /\ IdlePlaylist
  /\ IdleWeb

vars == <<library, catalog, hseed, entry, pc, offset, all_items, liked_tracks,
          artist_list, pos, artist_genre_map, page_calls, artist_calls, run,
          first_result, keywords, n, filtered_tracks, selected_tracks,
          playlist_name, user_id, playlist, uris, i_add, remote_playlists,
          pl_calls, form, session, reply, requests, history, csv_file>>

NextFetch ==
  \/ FetchPage
  \/ FetchPageRaises
  \/ BuildTracks
  \/ LookupBatch
  \/ LookupRaises
  \/ AttachGenres
  \/ FetchAgain

SpecFetch == InitFetch /\ [][NextFetch]_vars

(***************************************************************************)
(* filter_tracks_by_keywords.                                              *)
(***************************************************************************)
\* [kw.lower().strip() for kw in keywords if kw.strip()]
KeywordsLower(kws) ==
  LET kept == SelectSeq(kws, LAMBDA kw : Strip(kw) # <<>>)
  IN  [k \in 1..Len(kept) |-> Strip(Lower(kept[k]))]

\* a search text that is not lowercased
TextToSearchAsIs(track) ==
  track.name \o <<" ">> \o Join(<<" ">>, track.artists) \o <<" ">>
    \o track.album \o <<" ">> \o Join(<<" ">>, Get(track, "genres", <<>>))

\* text_to_search of one track
TextToSearch(track) ==
  LET genres_text == Join(<<" ">>, Get(track, "genres", <<>>))
  IN  Lower(track.name \o <<" ">> \o Join(<<" ">>, track.artists) \o <<" ">>
              \o track.album \o <<" ">> \o genres_text)

\* any(kw in text_to_search for kw in keywords_lower)
AnyKeywordIn(text, keywords_lower) ==
  \E k \in 1..Len(keywords_lower) : Contains(text, keywords_lower[k])

\* the loop over tracks: filtered after the tracks from position at on
RECURSIVE FilterLoop(_, _, _, _)
FilterLoop(tracks, keywords_lower, at, filtered) ==
  IF at > Len(tracks) THEN filtered
  ELSE FilterLoop(tracks, keywords_lower, at + 1,
                  IF AnyKeywordIn(TextToSearch(tracks[at]), keywords_lower)
                    THEN Append(filtered, tracks[at])
                    ELSE filtered)

\* filter_tracks_by_keywords(tracks, keywords)
FilterTracksByKeywords(tracks, kws) ==
  FilterLoop(tracks, KeywordsLower(kws), 1, <<>>)

(***************************************************************************)
(* select_representative_subset.                                           *)
(***************************************************************************)
\* the sequences of k distinct positions of a list of length len
DistinctPositions(len, k) ==
  {f \in [1..k -> 1..len] : \A a, b \in 1..k : a # b => f[a] # f[b]}

\* k positions drawn with replacement
AnyPositions(len, k) == [1..k -> 1..len]

\* random.sample(population, k): the elements at k distinct positions, in
\* the order drawn
RandomSample(population, k) ==
  {[j \in 1..k |-> population[f[j]]] : f \in DistinctPositions(Len(population), k)}

\* a sampler that draws with replacement
SelectWithReplacement(tracks, count) ==
  IF count <= 0 THEN {<<>>}
  ELSE IF Len(tracks) <= count THEN {tracks}
  ELSE {[j \in 1..count |-> tracks[f[j]]] : f \in AnyPositions(Len(tracks), count)}

\* select_representative_subset(tracks, n): the lists it may return
SelectRepresentativeSubset(tracks, count) ==
  IF count <= 0 THEN {<<>>}
  ELSE IF Len(tracks) <= count THEN {tracks}
  ELSE RandomSample(tracks, count)

(***************************************************************************)
(* Test data for the filter and the sampler.                               *)
(***************************************************************************)
MaxFilterLen == 2        \* track lists handed to the filter have 0..2 tracks
MaxKeywords == 2         \* keyword lists have 0..2 keywords
MaxSampleLen == 4        \* track lists handed to the sampler have 0..4 tracks

TrackPool ==
  { [name |-> <<"B","l","u","e">>, artists |-> <<<<"M","i","l","e","s"," ","D","a","v","i","s">>>>, artist_ids |-> <<1>>,
     album |-> <<"K","i","n","d">>, release_date |-> <<>>, release_year |-> <<>>,
     uri |-> <<"u","1">>, genres |-> <<<<"j","a","z","z">>, <<"C","o","o","l">>>>],
    [name |-> <<"C","a","r","t">>, artists |-> <<<<"A","B","B","A">>, <<"b">>>>, artist_ids |-> <<2, 3>>,
     album |-> <<"P","o","p">>, release_date |-> <<>>, release_year |-> <<>>,
     uri |-> <<"u","2">>, genres |-> <<>>],
    [name |-> <<"S","o">>, artists |-> <<>>, artist_ids |-> <<>>,
     album |-> <<"L","P">>, release_date |-> <<>>, release_year |-> <<>>,
     uri |-> <<"u","3">>],
    [name |-> <<>>, artists |-> <<>>, artist_ids |-> <<4>>,
     album |-> <<>>, release_date |-> <<>>, release_year |-> <<>>,
     uri |-> <<"u","4">>, genres |-> <<<<"r","o","c","k">>>>] }

KeywordPool ==
  { <<>>,
    <<" "," ">>,
    <<"J","A","Z","Z"," ">>,
    <<"\t","m","i","l","e","s"," ","d">>,
    <<"a","r","t">>,
    <<"s","o"," ","l","p">>,
    <<"o"," "," ","l">>,
    <<"z","z","z">> }

SeqsUpTo(S, len) == UNION {[1..k -> S] : k \in 0..len}

SamplePool == {t \in TrackPool : t.uri \in {<<"u","1">>, <<"u","3">>}}

\* the call filter_tracks_by_keywords(liked_tracks, keywords) returns
Filter ==
  /\ pc = "filter"
  /\ filtered_tracks' = FilterTracksByKeywords(liked_tracks, keywords)
  /\ pc' = "filtered"
  /\ UNCHANGED <<envVars, hseed, fetchVars, run, first_result, keywords, n,
                 selected_tracks, plVars, webVars>>

InitFilter ==
  /\ library = <<>>
  /\ catalog = 0
  /\ hseed = "asc"
  /\ entry \in {"web", "cli"}
  /\ pc = "filter"
  /\ offset = 0
  /\ all_items = <<>>
  /\ liked_tracks \in SeqsUpTo(TrackPool, MaxFilterLen)
  /\ artist_list = <<>>
  /\ pos = 0
  /\ artist_genre_map = <<>>
  /\ page_calls = <<>>
  /\ artist_calls = <<>>
  /\ run = 1
  /\ first_result = <<>>
  /\ keywords \in SeqsUpTo(KeywordPool, MaxKeywords)
  /\ n = 0
  /\ filtered_tracks = <<>>
  /\ selected_tracks = <<>>
  /\ IdlePlaylist
  /\ IdleWeb

SpecFilter == InitFilter /\ [][Filter]_vars

\* the call select_representative_subset(filtered_tracks, n) returns
Select ==
  /\ pc = "select"
  /\ selected_tracks' \in SelectRepresentativeSubset(filtered_tracks, n)
  /\ pc' = "selected"
  /\ UNCHANGED <<envVars, hseed, fetchVars, run, first_result, keywords, n,
                 filtered_tracks, plVars, webVars>>

InitSample ==
  /\ library = <<>>
  /\ catalog = 0
  /\ hseed = "asc"
  /\ entry \in {"web", "cli"}
  /\ pc = "select"
  /\ offset = 0
  /\ all_items = <<>>
  /\ liked_tracks = <<>>
  /\ artist_list = <<>>
  /\ pos = 0
  /\ artist_genre_map = <<>>
  /\ page_calls = <<>>
  /\ artist_calls = <<>>
  /\ run = 1
  /\ first_result = <<>>
  /\ keywords = <<>>
  /\ n \in (-2)..(MaxSampleLen + 1)
  /\ filtered_tracks \in SeqsUpTo(SamplePool, MaxSampleLen)
  /\ selected_tracks = <<>>
  /\ IdlePlaylist
  /\ IdleWeb

SpecSample == InitSample /\ [][Select]_vars

(***************************************************************************)
(* create_playlist_for_tracks.                                             *)
(***************************************************************************)
MaxAddBatches == 2       \* track lists hold up to 2 full batches, +/- 1 track

\* remote: sp.me()["id"], the user the token belongs to
RemoteUser == "user-1"

\* the description create_playlist_for_tracks passes
Description == <<"F","i","l","t","e","r","e","d"," ","t","r","a","c","k","s"," ","f","r","o","m"," ","L","i","k","e","d"," ","S","o","n","g","s">>

\* remote: the public link of the playlist with this id
PlaylistLink(id) == <<"o","/">> \o Digits(id)

\* remote: the playlist sp.user_playlist_create stores
NewRemotePlaylist(id, args) ==
  [id |-> id, owner |-> args.user, name |-> args.name, public |-> args.public,
   description |-> args.description, items |-> <<>>]

\* remote: the playlists after sp.playlist_add_items(id, items) succeeded
RemoteAddItems(playlists, id, items) ==
  [k \in 1..Len(playlists) |->
     IF playlists[k].id = id
       THEN [playlists[k] EXCEPT !.items = @ \o items]
       ELSE playlists[k]]

\* a slice that stops one URI short of a hundred
UriBatchShort(all_uris, at) == SubSeq(all_uris, at + 1, Min(at + AddBatch - 1, Len(all_uris)))

\* uris[i: i + 100]
UriBatch(all_uris, at) == SubSeq(all_uris, at + 1, Min(at + AddBatch, Len(all_uris)))

\* the call create_playlist_for_tracks(sp, tracks, playlist_name): the state
\* at its first line
EnterCreate(name) ==
  /\ playlist_name' = name
  /\ user_id' = ""
  /\ playlist' = <<>>
  /\ uris' = <<>>
  /\ i_add' = 0
  /\ pl_calls' = <<>>

\* user_id = sp.me()["id"]
CallMe ==
  /\ pc = "me"
  /\ user_id' = RemoteUser
  /\ pl_calls' = Append(pl_calls, [op |-> "me", ok |-> TRUE])
  /\ pc' = "create"
  /\ UNCHANGED <<envVars, hseed, fetchVars, run, first_result, pickVars,
                 playlist_name, playlist, uris, i_add, remote_playlists, webVars>>

\* sp.me() raises
CallMeRaises ==
  /\ pc = "me"
  /\ pl_calls' = Append(pl_calls, [op |-> "me", ok |-> FALSE])
  /\ pc' = "raised"
  /\ UNCHANGED <<envVars, hseed, fetchVars, run, first_result, pickVars,
                 playlist_name, user_id, playlist, uris, i_add, remote_playlists,
                 webVars>>

\* playlist = sp.user_playlist_create(...); uris = [t["uri"] for t in tracks]
CreatePlaylist ==
  /\ pc = "create"
  /\ LET args == [user |-> user_id, name |-> playlist_name, public |-> FALSE,
                  description |-> Description]
         id   == Len(remote_playlists) + 1
     IN  /\ remote_playlists' = Append(remote_playlists, NewRemotePlaylist(id, args))
         /\ playlist' = [id |-> id, external_urls |-> [spotify |-> PlaylistLink(id)]]
         /\ pl_calls' = Append(pl_calls, [op |-> "create", ok |-> TRUE, args |-> args])
  /\ uris' = [k \in 1..Len(selected_tracks) |-> selected_tracks[k].uri]
  /\ i_add' = 0
  /\ pc' = "add"
  /\ UNCHANGED <<envVars, hseed, fetchVars, run, first_result, pickVars,
                 playlist_name, user_id, webVars>>

\* sp.user_playlist_create raises
CreatePlaylistRaises ==
  /\ pc = "create"
  /\ pl_calls' = Append(pl_calls,
                        [op |-> "create", ok |-> FALSE,
                         args |-> [user |-> user_id, name |-> playlist_name,
                                   public |-> FALSE, description |-> Description]])
  /\ pc' = "raised"
  /\ UNCHANGED <<envVars, hseed, fetchVars, run, first_result, pickVars,
                 playlist_name, user_id, playlist, uris, i_add, remote_playlists,
                 webVars>>

\* one turn of "for i in range(0, len(uris), 100)": the append answers
AddItems ==
  /\ pc = "add"
  /\ i_add < Len(uris)
  /\ LET batch == UriBatch(uris, i_add)
     IN  /\ remote_playlists' = RemoteAddItems(remote_playlists, playlist.id, batch)
         /\ pl_calls' = Append(pl_calls,
                               [op |-> "add", ok |-> TRUE,
                                args |-> [playlist |-> playlist.id, items |-> batch]])
  /\ i_add' = i_add + AddBatch
  /\ UNCHANGED <<envVars, hseed, fetchVars, run, first_result, pickVars, pc,
                 playlist_name, user_id, playlist, uris, webVars>>

\* a caller that swallows the failure of an append and goes on
AddItemsRaisesSwallowed ==
  /\ pc = "add"
  /\ i_add < Len(uris)
  /\ pl_calls' = Append(pl_calls,
                        [op |-> "add", ok |-> FALSE,
                         args |-> [playlist |-> playlist.id,
                                   items |-> UriBatch(uris, i_add)]])
  /\ i_add' = i_add + AddBatch
  /\ UNCHANGED <<envVars, hseed, fetchVars, run, first_result, pickVars, pc,
                 playlist_name, user_id, playlist, uris, remote_playlists, webVars>>

\* sp.playlist_add_items raises: the remote playlist is left as it was
AddItemsRaises ==
  /\ pc = "add"
  /\ i_add < Len(uris)
  /\ pl_calls' = Append(pl_calls,
                        [op |-> "add", ok |-> FALSE,
                         args |-> [playlist |-> playlist.id,
                                   items |-> UriBatch(uris, i_add)]])
  /\ pc' = "raised"
  /\ UNCHANGED <<envVars, hseed, fetchVars, run, first_result, pickVars,
                 playlist_name, user_id, playlist, uris, i_add, remote_playlists,
                 webVars>>

\* return playlist
ReturnPlaylist ==
  /\ pc = "add"
  /\ i_add >= Len(uris)
  /\ pc' = "created"
  /\ UNCHANGED <<envVars, hseed, fetchVars, run, first_result, pickVars,
                 plVars, webVars>>

\* Test data: track lists of 1, 99, 100, 101, ... tracks, with distinct URIs
\* ("solo") or with URIs that repeat ("again")
PlaylistSizes ==
  {k * AddBatch + d : k \in 0..MaxAddBatches, d \in {-1, 0, 1}} \cap (Nat \ {0})

GenTracks(len, kind, who) ==
  [k \in 1..len |->
     BuildTrack(GenItem(IF kind = "again" THEN (k % 3) + 1 ELSE k, "solo"), who)]

DefaultName == <<"F","i","l","t","e","r","e","d"," ","T","r","a","c","k","s">>

InitPlaylist ==
  /\ library = <<>>
  /\ catalog = 0
  /\ hseed = "asc"
  /\ entry \in {"web", "cli"}
  /\ pc = "me"
  /\ offset = 0
  /\ all_items = <<>>
  /\ liked_tracks = <<>>
  /\ artist_list = <<>>
  /\ pos = 0
  /\ artist_genre_map = <<>>
  /\ page_calls = <<>>
  /\ artist_calls = <<>>
  /\ run = 1
  /\ first_result = <<>>
  /\ keywords = <<>>
  /\ n = 0
  /\ filtered_tracks = <<>>
  /\ selected_tracks \in {GenTracks(len, kind, entry) :
                            len \in PlaylistSizes, kind \in {"solo", "again"}}
  /\ playlist_name \in {DefaultName, <<"m","i","x">>}
  /\ user_id = ""
  /\ playlist = <<>>
  /\ uris = <<>>
  /\ i_add = 0
  /\ remote_playlists \in {<<>>, <<NewRemotePlaylist(1,
                                     [user |-> RemoteUser, name |-> <<"o","l","d">>,
                                      public |-> TRUE, description |-> <<>>])>>}
  /\ pl_calls = <<>>
  /\ IdleWeb

NextPlaylist ==
  \/ CallMe
  \/ CallMeRaises
  \/ CreatePlaylist
  \/ CreatePlaylistRaises
  \/ AddItems
  \/ AddItemsRaises
  \/ ReturnPlaylist

SpecPlaylist == InitPlaylist /\ [][NextPlaylist]_vars

(***************************************************************************)
(* int(text), str(number), the CSV writer and the text encoding.           *)
(***************************************************************************)
IsDigit(c) == \E d \in 1..Len(DigitChars) : DigitChars[d] = c

DigitValue(c) == (CHOOSE d \in 1..Len(DigitChars) : DigitChars[d] = c) - 1

\* the text between the surrounding whitespace and after the sign
IntDigits(text) ==
  LET t == Strip(text)
  IN  IF t # <<>> /\ Head(t) \in {"+", "-"} THEN Tail(t) ELSE t

\* int(text) returns: optional whitespace, an optional sign, then digits
\* (underscores between digits, which int also accepts, are left out)
IntParses(text) ==
  /\ IntDigits(text) # <<>>
  /\ \A k \in 1..Len(IntDigits(text)) : IsDigit(IntDigits(text)[k])

RECURSIVE DecimalValue(_, _)
DecimalValue(ds, acc) ==
  IF ds = <<>> THEN acc ELSE DecimalValue(Tail(ds), 10 * acc + DigitValue(Head(ds)))

\* int(text) when it returns
IntOf(text) ==
  LET t == Strip(text)
      v == DecimalValue(IntDigits(text), 0)
  IN  IF Head(t) = "-" THEN 0 - v ELSE v

\* str(k) for k >= 0
Str(k) == Digits(k)

\* the csv module's minimal quoting: a field holding the delimiter, the
\* quote character or a line break is quoted, its quotes doubled
NeedsQuotes(field) == \E k \in 1..Len(field) : field[k] \in {",", "\"", "\n", "\r"}

RECURSIVE DoubleQuotes(_)
DoubleQuotes(field) ==
  IF field = <<>> THEN <<>>
  ELSE (IF Head(field) = "\"" THEN <<"\"", "\"">> ELSE <<Head(field)>>)
         \o DoubleQuotes(Tail(field))

CsvField(field) ==
  IF NeedsQuotes(field) THEN <<"\"">> \o DoubleQuotes(field) \o <<"\"">> ELSE field

\* writer.writerow: the fields, comma separated, and the line terminator
CsvRow(fields) ==
  Join(<<",">>, [k \in 1..Len(fields) |-> CsvField(fields[k])]) \o <<"\r", "\n">>

\* text.encode("utf-8") and bytes.decode("utf-8"): bytes are kept as the
\* text they encode, tagged with the encoding
Utf8Encode(text) == [encoding |-> "utf-8", decoded |-> text]
Utf8Decode(bytes) == bytes.decoded

\* fieldnames of tracks_to_csv_bytes (app.py)
WebFieldNames == <<<<"n","a","m","e">>, <<"a","r","t","i","s","t","s">>, <<"a","l","b","u","m">>, <<"r","e","l","e","a","s","e","_","d","a","t","e">>, <<"r","e","l","e","a","s","e","_","y","e","a","r">>, <<"g","e","n","r","e","s">>, <<"u","r","l">>, <<"u","r","i">>>>

\* fieldnames of export_to_csv (get_representative_playlist.py)
CliFieldNames == <<<<"n","a","m","e">>, <<"a","r","t","i","s","t","s">>, <<"a","l","b","u","m">>, <<"r","e","l","e","a","s","e","_","d","a","t","e">>, <<"r","e","l","e","a","s","e","_","y","e","a","r">>, <<"u","r","i">>>>

\* the row dict of one track, in the order of WebFieldNames
WebRow(t) ==
  << t.name, Join(<<",", " ">>, t.artists), t.album, t.release_date,
     t.release_year, Join(<<",", " ">>, Get(t, "genres", <<>>)), t.url, t.uri >>

\* the row dict of one track, in the order of CliFieldNames
CliRow(t) ==
  << t.name, Join(<<",", " ">>, t.artists), t.album, t.release_date,
     t.release_year, t.uri >>

\* output.getvalue() after the header and one row per track
RECURSIVE CsvRows(_, _)
CsvRows(tracks, who) ==
  IF tracks = <<>> THEN <<>>
  ELSE CsvRow(IF who = "web" THEN WebRow(Head(tracks)) ELSE CliRow(Head(tracks)))
         \o CsvRows(Tail(tracks), who)

\* tracks_to_csv_bytes(tracks)
TracksToCsvBytes(tracks) ==
  Utf8Encode(CsvRow(WebFieldNames) \o CsvRows(tracks, "web"))

\* the content of the file export_to_csv(tracks, filename) writes
ExportToCsv(tracks) ==
  Utf8Encode(CsvRow(CliFieldNames) \o CsvRows(tracks, "cli"))

(***************************************************************************)
(* The entry points: create_playlist_route and download_csv (app.py), and  *)
(* the __main__ block (get_representative_playlist.py).                    *)
(***************************************************************************)
MaxRouteLib == 2         \* the entry points run against libraries of 0..2 tracks
MaxPosts == 2            \* the web application serves up to 2 POST requests

\* [kw.strip() for kw in raw_keywords.split(",") if kw.strip()]
ParseKeywords(raw) ==
  LET kept == SelectSeq(Split(raw, ","), LAMBDA part : Strip(part) # <<>>)
  IN  [k \in 1..Len(kept) |-> Strip(kept[k])]

\* try: n = int(n_str)  except ValueError: n = 0
ParseCount(n_str) == IF IntParses(n_str) THEN IntOf(n_str) ELSE 0

\* f"Rep sample ({len(selected_tracks)}) - {', '.join(keywords)}"
RepSampleName(selected, kws) ==
  <<"R","e","p"," ","s","a","m","p","l","e"," ","(">> \o Str(Len(selected)) \o <<")", " ", "-", " ">>
    \o Join(<<",", " ">>, kws)

\* a route that never takes the "no tracks" branch
NeverEmpty(tracks) == FALSE

\* not selected_tracks
NotTruthy(tracks) == tracks = <<>>

\* the page rendered when nothing was selected
NoMatchPage(filtered) ==
  [route |-> "create_playlist", kind |-> "page", logged_in |-> TRUE,
   message |-> "No tracks matched your keywords. Try different keywords.",
   playlist_url |-> <<>>, show_download |-> FALSE,
   filtered_count |-> Len(filtered), selected_count |-> 0, tracks |-> <<>>]

\* the page rendered after the playlist was created
CreatedPage(filtered, selected, name, link) ==
  [route |-> "create_playlist", kind |-> "page", logged_in |-> TRUE,
   message |-> [text |-> "Found {} matching tracks. Created playlist '{}' with {} tracks.",
                args |-> <<Str(Len(filtered)), name, Str(Len(selected))>>],
   playlist_url |-> link, show_download |-> TRUE,
   filtered_count |-> Len(filtered), selected_count |-> Len(selected),
   tracks |-> selected]

\* a route that keeps the export it stored first
SessionKeepingCsv(sess, csv_bytes) ==
  IF "csv_data" \in DOMAIN sess THEN sess
  ELSE ("csv_data" :> Utf8Decode(csv_bytes)) @@ sess

\* session["csv_data"] = csv_bytes.decode("utf-8")
SessionWithCsv(sess, csv_bytes) == ("csv_data" :> Utf8Decode(csv_bytes)) @@ sess

\* download_csv: what it answers for this session
DownloadReply(sess) ==
  LET csv_text == Get(sess, "csv_data", <<>>)
  IN  IF csv_text = <<>>
        THEN [route |-> "download_csv", kind |-> "redirect", to |-> "index"]
        ELSE [route |-> "download_csv", kind |-> "file", body |-> Utf8Encode(csv_text), mimetype |-> "text/csv",
              as_attachment |-> TRUE, download_name |-> "filtered_tracks.csv"]

\* how invocations ended.  An invocation is entered in history when it
\* starts, with what the session and the remote held then.
Running(who) ==
  [who |-> who, outcome |-> "running",
   csv_before |-> Get(session, "csv_data", <<>>),
   playlists_before |-> remote_playlists, selected |-> <<>>]

Ended(outcome, selected) ==
  [history EXCEPT ![Len(history)] =
     [@ EXCEPT !.outcome = outcome, !.selected = selected]]

\* the locals of an invocation that has not yet called
\* create_playlist_for_tracks
NoCreateYet ==
  /\ playlist_name' = <<>>
  /\ user_id' = ""
  /\ playlist' = <<>>
  /\ uris' = <<>>
  /\ i_add' = 0
  /\ pl_calls' = <<>>

\* Test data: what the user submits or types
WebForms ==
  { [keywords |-> <<"s","o","n","g",","," ","M","i","l","e","s">>, num_tracks |-> <<"1">>],
    [keywords |-> <<"J","a","z","z">>, num_tracks |-> <<" ", "5", " ">>,
     playlist_name |-> <<" ", "m", "i", "x", " ">>],
    [keywords |-> <<" ",","," ">>, num_tracks |-> <<"3">>],
    [keywords |-> <<"z","z","z">>, num_tracks |-> <<"2">>],
    [keywords |-> <<"s","o","n","g">>, num_tracks |-> <<"a", "b", "c">>],
    [keywords |-> <<"s","o","n","g">>, num_tracks |-> <<"-", "1">>],
    <<>> }

CliForms == {f \in WebForms : DOMAIN f = {"keywords", "num_tracks"}}

RouteLibraries ==
  {GenLibrary(len, shape) : len \in 0..MaxRouteLib, shape \in {"shared", "mixed"}}

\* POST /create_playlist, up to the call of get_liked_tracks
PostCreatePlaylist ==
  /\ entry = "web"
  /\ pc = "idle"
  /\ requests < MaxPosts
  /\ requests' = requests + 1
  /\ \E f \in WebForms :
       /\ form' = f
       /\ IF "token_info" \notin DOMAIN session
            THEN /\ reply' = [route |-> "create_playlist", kind |-> "redirect",
                                to |-> "login"]
                 /\ pc' = "idle"
                 /\ UNCHANGED <<fetchVars, pickVars, plVars, history>>
            ELSE /\ keywords' = ParseKeywords(Get(f, "keywords", <<>>))
                 /\ n' = ParseCount(Get(f, "num_tracks", <<"0">>))
                 /\ filtered_tracks' = <<>>
                 /\ selected_tracks' = <<>>
                 /\ EnterFetch
                 /\ NoCreateYet
                 /\ reply' = <<>>
                 /\ history' = Append(history, Running("web"))
                 /\ pc' = "page"
                 /\ UNCHANGED remote_playlists
  /\ UNCHANGED <<envVars, hseed, run, first_result, session, csv_file>>

\* create_playlist_route from the return of get_liked_tracks to the call of
\* create_playlist_for_tracks, or to the "no tracks" page
RouteSelect ==
  /\ entry = "web"
  /\ pc = "fetched"
  /\ filtered_tracks' = FilterTracksByKeywords(liked_tracks, keywords)
  /\ selected_tracks' \in SelectRepresentativeSubset(filtered_tracks', n)
  /\ IF NotTruthy(selected_tracks')
       THEN /\ reply' = NoMatchPage(filtered_tracks')
            /\ history' = Ended("empty", selected_tracks')
            /\ pc' = "idle"
            /\ UNCHANGED plVars
       ELSE /\ LET playlist_name_input == Strip(Get(form, "playlist_name", <<>>))
               IN  IF playlist_name_input # <<>>
                     THEN EnterCreate(playlist_name_input)
                     ELSE EnterCreate(RepSampleName(selected_tracks', keywords))
            /\ pc' = "me"
            /\ UNCHANGED <<reply, history, remote_playlists>>
  /\ UNCHANGED <<envVars, hseed, fetchVars, run, first_result, keywords, n,
                 form, session, requests, csv_file>>

\* create_playlist_route after create_playlist_for_tracks returned
RouteFinish ==
  /\ entry = "web"
  /\ pc = "created"
  /\ session' = SessionWithCsv(session, TracksToCsvBytes(selected_tracks))
  /\ reply' = CreatedPage(filtered_tracks, selected_tracks, playlist_name,
                          playlist.external_urls.spotify)
  /\ history' = Ended("created", selected_tracks)
  /\ pc' = "idle"
  /\ UNCHANGED <<envVars, hseed, fetchVars, run, first_result, pickVars, plVars,
                 form, requests, csv_file>>

\* an exception leaves create_playlist_route: the framework answers 500
ServerError ==
  /\ entry = "web"
  /\ pc = "raised"
  /\ reply' = [route |-> "create_playlist", kind |-> "error", status |-> 500]
  /\ history' = Ended("remote_error", selected_tracks)
  /\ pc' = "idle"
  /\ UNCHANGED <<envVars, hseed, fetchVars, run, first_result, pickVars, plVars,
                 form, session, requests, csv_file>>

\* GET /download_csv
GetDownloadCsv ==
  /\ entry = "web"
  /\ pc = "idle"
  /\ reply' = DownloadReply(session)
  /\ UNCHANGED <<envVars, hseed, pc, fetchVars, run, first_result, pickVars,
                 plVars, form, session, requests, history, csv_file>>

\* GET /callback: the login stores the token in the session
Callback ==
  /\ entry = "web"
  /\ pc = "idle"
  /\ "token_info" \notin DOMAIN session
  /\ session' = ("token_info" :> [access_token |-> "token"]) @@ session
  /\ reply' = [route |-> "callback", kind |-> "redirect", to |-> "index"]
  /\ UNCHANGED <<envVars, hseed, pc, fetchVars, run, first_result, pickVars,
                 plVars, form, requests, history, csv_file>>

\* __main__ from the return of get_liked_tracks (step 1) to the call of
\* create_playlist_for_tracks, to the "no tracks" message, or to the
\* ValueError of int(input(...))
CliPrompt ==
  /\ entry = "cli"
  /\ pc = "fetched"
  /\ \E typed \in CliForms :
       /\ form' = typed
       /\ keywords' = ParseKeywords(typed.keywords)
       /\ IF ~IntParses(typed.num_tracks)
            THEN /\ reply' = [kind |-> "traceback", error |-> "ValueError"]
                 /\ history' = Ended("value_error", <<>>)
                 /\ pc' = "exit"
                 /\ UNCHANGED <<n, filtered_tracks, selected_tracks, plVars>>
            ELSE /\ n' = IntOf(typed.num_tracks)
                 /\ filtered_tracks' = FilterTracksByKeywords(liked_tracks, keywords')
                 /\ selected_tracks' \in SelectRepresentativeSubset(filtered_tracks', n')
                 /\ IF ~NotTruthy(selected_tracks')
                      THEN /\ EnterCreate(RepSampleName(selected_tracks', keywords'))
                           /\ pc' = "me"
                           /\ UNCHANGED <<reply, history, remote_playlists>>
                      ELSE /\ reply' = [kind |-> "printed",
                                        text |-> "No tracks matched your keywords; no playlist was created."]
                           /\ history' = Ended("empty", selected_tracks')
                           /\ pc' = "exit"
                           /\ UNCHANGED plVars
  /\ UNCHANGED <<envVars, hseed, fetchVars, run, first_result, session,
                 requests, csv_file>>

\* __main__ after create_playlist_for_tracks returned: step 5
CliFinish ==
  /\ entry = "cli"
  /\ pc = "created"
  /\ csv_file' = ExportToCsv(selected_tracks)
  /\ reply' = [kind |-> "printed", text |-> "Exported filtered tracks to {}.",
               playlist_url |-> playlist.external_urls.spotify]
  /\ history' = Ended("created", selected_tracks)
  /\ pc' = "exit"
  /\ UNCHANGED <<envVars, hseed, fetchVars, run, first_result, pickVars, plVars,
                 form, session, requests>>

\* an exception leaves __main__: the interpreter prints it and exits
CliError ==
  /\ entry = "cli"
  /\ pc = "raised"
  /\ reply' = [kind |-> "traceback", error |-> "remote"]
  /\ history' = Ended("remote_error", selected_tracks)
  /\ pc' = "exit"
  /\ UNCHANGED <<envVars, hseed, fetchVars, run, first_result, pickVars, plVars,
                 form, session, requests, csv_file>>

Init ==
  /\ library \in RouteLibraries
  /\ catalog \in CatalogVariants
  /\ hseed \in {"asc", "desc"}
  /\ entry \in {"web", "cli"}
  /\ pc = IF entry = "web" THEN "idle" ELSE "page"
  /\ offset = 0
  /\ all_items = <<>>
  /\ liked_tracks = <<>>
  /\ artist_list = <<>>
  /\ pos = 0
  /\ artist_genre_map = <<>>
  /\ page_calls = <<>>
  /\ artist_calls = <<>>
  /\ run = 1
  /\ first_result = <<>>
  /\ keywords = <<>>
  /\ n = 0
  /\ filtered_tracks = <<>>
  /\ selected_tracks = <<>>
  /\ IdlePlaylist
  /\ form = <<>>
  /\ session \in IF entry = "web"
                   THEN {<<>>, ("token_info" :> [access_token |-> "token"])}
                   ELSE {<<>>}
  /\ reply = <<>>
  /\ requests = 0
  /\ history = IF entry = "web" THEN <<>> ELSE <<Running("cli")>>
  /\ csv_file = <<>>

Next ==
  \/ PostCreatePlaylist
  \/ FetchPage
  \/ FetchPageRaises
  \/ BuildTracks
  \/ LookupBatch
  \/ LookupRaises
  \/ AttachGenres
  \/ RouteSelect
  \/ CallMe
  \/ CallMeRaises
  \/ CreatePlaylist
  \/ CreatePlaylistRaises
  \/ AddItems
  \/ AddItemsRaises
  \/ ReturnPlaylist
  \/ RouteFinish
  \/ ServerError
  \/ GetDownloadCsv
  \/ Callback
  \/ CliPrompt
  \/ CliFinish
  \/ CliError

Spec == Init /\ [][Next]_vars

(***************************************************************************)
(* Properties of get_liked_tracks (under SpecFetch).                       *)
(***************************************************************************)
CeilDiv(a, b) == (a + b - 1) \div b

RECURSIVE Flatten(_)
Flatten(seqs) == IF seqs = <<>> THEN <<>> ELSE Head(seqs) \o Flatten(Tail(seqs))

\* the distinct artist identifiers the library's tracks reference
LibraryArtistIds ==
  UNION {{library[i].track.artists[k].id : k \in 1..Len(library[i].track.artists)}
           : i \in 1..Len(library)} \ {NoneId}

\* the genres the remote catalog holds for one artist id
CatalogGenres(a) ==
  LET r == CatalogRecord(a, catalog)
  IN  IF r = <<>> \/ "genres" \notin DOMAIN r[1] THEN {} ELSE Range(r[1].genres)

\* C1: against an unchanging library of L items, the saved-tracks requests
\* are pages of 50 at offsets 0, 50, 100, ... in this order; every request
\* but the last returned items, so none follows the first empty page; the
\* loop is left only on an empty page; and the tracks returned are the L
\* library items, each once, in library order.
C1_FetchPagination ==
  /\ \A k \in 1..Len(page_calls) :
        /\ page_calls[k].limit = 50
        /\ page_calls[k].offset = 50 * (k - 1)
        /\ k < Len(page_calls) => page_calls[k].count > 0
  /\ pc \in {"build", "artists", "fetched"} =>
        /\ page_calls # <<>>
        /\ page_calls[Len(page_calls)].count = 0
        /\ Len(all_items) = Len(library)
  /\ pc = "fetched" =>
        /\ Len(liked_tracks) = Len(library)
        /\ \A i \in 1..Len(library) :
              /\ liked_tracks[i].uri = library[i].track.uri
              /\ liked_tracks[i].name = library[i].track.name

\* C1 witness: a library of exactly two full pages was fetched with three
\* requests, the third one empty
C1_Witness ==
  /\ pc = "fetched"
  /\ Len(library) = 100
  /\ Len(page_calls) = 3
  /\ Len(liked_tracks) = 100

\* C2: every artist lookup carries 1..50 identifiers; no identifier is
\* looked up twice; only identifiers referenced by a fetched track are
\* looked up; and when enrichment is over every one of the D distinct
\* identifiers has been looked up, in ceil(D/50) calls (none when D = 0).
C2_LookupBatches ==
  LET flat == Flatten(artist_calls)
  IN  /\ \A c \in 1..Len(artist_calls) :
            Len(artist_calls[c]) >= 1 /\ Len(artist_calls[c]) <= 50
      /\ Cardinality(Range(flat)) = Len(flat)
      /\ Range(flat) \subseteq LibraryArtistIds
      /\ pc = "fetched" =>
            /\ Range(flat) = LibraryArtistIds
            /\ Len(artist_calls) = CeilDiv(Cardinality(LibraryArtistIds), 50)

\* C2 witness: more than 100 distinct identifiers were looked up in three
\* calls, the last one a short batch
C2_Witness ==
  /\ pc = "fetched"
  /\ Cardinality(LibraryArtistIds) > 100
  /\ Len(artist_calls) = 3
  /\ Len(artist_calls[3]) < 50

\* C3: when get_liked_tracks has returned, each track's genres are, as a
\* set, the union over its artist_ids of the genres the catalog holds for
\* them (nothing for an artist without a record or without a genres field);
\* and a second run against the same library and catalog gives every track
\* the same set of genres as the first.
C3_Genres ==
  pc = "fetched" =>
    /\ \A i \in 1..Len(liked_tracks) :
          Range(liked_tracks[i].genres) =
            UNION {CatalogGenres(a) : a \in Range(liked_tracks[i].artist_ids)}
    /\ run = 2 =>
          /\ Len(liked_tracks) = Len(first_result)
          /\ \A i \in 1..Len(liked_tracks) :
                Range(liked_tracks[i].genres) = Range(first_result[i].genres)

\* C3 witness: a second run has returned, after lookups in several batches,
\* with a track that got genres from two artists, a track whose artist has
\* no record and a track whose genres come in another order than before
C3_Witness ==
  /\ pc = "fetched"
  /\ run = 2
  /\ Len(artist_calls) >= 2
  /\ \E i \in 1..Len(liked_tracks) :
        /\ Len(liked_tracks[i].artist_ids) = 2
        /\ Cardinality(Range(liked_tracks[i].genres)) >= 3
  /\ \E i \in 1..Len(liked_tracks) :
        \E a \in Range(liked_tracks[i].artist_ids) : CatalogRecord(a, catalog) = <<>>
  /\ \E i \in 1..Len(liked_tracks) :
        liked_tracks[i].genres # first_result[i].genres

(***************************************************************************)
(* Properties of filter_tracks_by_keywords (under SpecFilter).             *)
(***************************************************************************)
\* a keyword, trimmed and lowercased
NormalisedKeyword(kw) == Lower(Strip(kw))

\* name, every artist name, album and every genre, joined by single spaces
FlatSearchString(t) ==
  Lower(Join(<<" ">>, <<t.name>> \o t.artists \o <<t.album>>
                        \o (IF "genres" \in DOMAIN t THEN t.genres ELSE <<>>)))

\* four parts joined by single spaces: the name, the artist names joined
\* by single spaces, the album, the genres joined by single spaces
PartsSearchString(t) ==
  Lower(Join(<<" ">>,
             << t.name,
                Join(<<" ">>, t.artists),
                t.album,
                Join(<<" ">>, IF "genres" \in DOMAIN t THEN t.genres ELSE <<>>) >>))

NoKeywordLeft(kws) == \A k \in 1..Len(kws) : Strip(kws[k]) = <<>>

\* C4 as stated: the result is the subsequence of T of the tracks whose
\* search string -- name, artist names, album and genres joined by single
\* spaces, lowercased -- contains a trimmed, lowercased, non-empty keyword
\* of K; it is empty when no keyword of K is left.
C4_Original ==
  pc = "filtered" =>
    /\ filtered_tracks =
         SelectSeq(liked_tracks,
                   LAMBDA t : \E k \in 1..Len(keywords) :
                      /\ NormalisedKeyword(keywords[k]) # <<>>
                      /\ Contains(FlatSearchString(t), NormalisedKeyword(keywords[k])))
    /\ NoKeywordLeft(keywords) => filtered_tracks = <<>>

\* C4 as amended: the result is the subsequence of T, in T's order and
\* without duplication, of the tracks whose search string contains a
\* trimmed, lowercased, non-empty keyword of K, where the search string is
\* the lowercased text name + " " + (artist names joined by single spaces)
\* + " " + album + " " + (genres joined by single spaces), so that a track
\* without artist names has two spaces between name and album; the result
\* is empty when K is empty or holds only empty or whitespace keywords.
C4_Filter ==
  pc = "filtered" =>
    /\ filtered_tracks =
         SelectSeq(liked_tracks,
                   LAMBDA t : \E k \in 1..Len(keywords) :
                      /\ NormalisedKeyword(keywords[k]) # <<>>
                      /\ Contains(PartsSearchString(t), NormalisedKeyword(keywords[k])))
    /\ NoKeywordLeft(keywords) => filtered_tracks = <<>>

\* C4 witness: of two tracks the filter kept the second only, a track
\* without artist names matched across its two adjacent spaces, with a
\* whitespace keyword in the list
C4_Witness ==
  /\ pc = "filtered"
  /\ Len(liked_tracks) = 2
  /\ Len(filtered_tracks) = 1
  /\ filtered_tracks[1] = liked_tracks[2]
  /\ filtered_tracks[1] # liked_tracks[1]
  /\ filtered_tracks[1].artists = <<>>
  /\ \E k \in 1..Len(keywords) : keywords[k] # <<>> /\ Strip(keywords[k]) = <<>>

(***************************************************************************)
(* Properties of select_representative_subset (under SpecSample).          *)
(***************************************************************************)
Max(a, b) == IF a > b THEN a ELSE b

\* C5: select_representative_subset(T, N) has length min(max(N, 0), len(T));
\* it is empty when N <= 0; it is T, in order, when 0 < len(T) <= N; and
\* when 0 < N < len(T) it holds the elements at N distinct positions of T.
C5_Sample ==
  pc = "selected" =>
    /\ Len(selected_tracks) = Min(Max(n, 0), Len(filtered_tracks))
    /\ n <= 0 => selected_tracks = <<>>
    /\ (0 < Len(filtered_tracks) /\ Len(filtered_tracks) <= n) =>
          selected_tracks = filtered_tracks
    /\ (0 < n /\ n < Len(filtered_tracks)) =>
          \E f \in [1..n -> 1..Len(filtered_tracks)] :
             /\ \A a, b \in 1..n : a # b => f[a] # f[b]
             /\ selected_tracks = [j \in 1..n |-> filtered_tracks[f[j]]]

\* C5 witness: two of three tracks were drawn, the last one first
C5_Witness ==
  /\ pc = "selected"
  /\ n = 2
  /\ Len(filtered_tracks) = 3
  /\ Len(selected_tracks) = 2
  /\ selected_tracks[1] = filtered_tracks[3]
  /\ selected_tracks[1] # filtered_tracks[1]
  /\ selected_tracks[2] = filtered_tracks[1]

(***************************************************************************)
(* Properties of create_playlist_for_tracks (under SpecPlaylist).          *)
(***************************************************************************)
\* the item-append calls, in call order
AddCalls == SelectSeq(pl_calls, LAMBDA c : c.op = "add")

\* the URIs of the tracks handed to create_playlist_for_tracks, in order
GivenUris == [k \in 1..Len(selected_tracks) |-> selected_tracks[k].uri]

\* the URIs the first k item-append calls carried, concatenated
AppendedBy(k) == Flatten([a \in 1..k |-> AddCalls[a].args.items])

\* C6: an item-append call is only made after a successful playlist
\* creation; and when create_playlist_for_tracks has returned for a list of
\* n >= 1 tracks, it made exactly one creation call, private and owned by
\* the current user, followed by ceil(n/100) item-append calls, all on the
\* created playlist, each with 1..100 URIs, whose concatenation in call
\* order is the tracks' URIs in the given order -- which is what the remote
\* playlist then holds.
C6_Playlist ==
  /\ \A k \in 1..Len(pl_calls) :
        pl_calls[k].op = "add" =>
          \E j \in 1..(k - 1) : pl_calls[j].op = "create" /\ pl_calls[j].ok
  /\ pc = "created" =>
        /\ Cardinality({k \in 1..Len(pl_calls) : pl_calls[k].op = "create"}) = 1
        /\ \A k \in 1..Len(pl_calls) :
              pl_calls[k].op = "create" =>
                /\ pl_calls[k].args.public = FALSE
                /\ pl_calls[k].args.user = RemoteUser
                /\ \A j \in (k + 1)..Len(pl_calls) : pl_calls[j].op = "add"
        /\ remote_playlists[playlist.id].owner = RemoteUser
        /\ remote_playlists[playlist.id].public = FALSE
        /\ Len(AddCalls) = CeilDiv(Len(selected_tracks), 100)
        /\ \A a \in 1..Len(AddCalls) :
              /\ AddCalls[a].args.playlist = playlist.id
              /\ Len(AddCalls[a].args.items) >= 1
              /\ Len(AddCalls[a].args.items) <= 100
        /\ AppendedBy(Len(AddCalls)) = GivenUris
        /\ remote_playlists[playlist.id].items = GivenUris

\* C6 witness: 201 tracks, some with the same URI, went out in three
\* batches, the last of one URI
C6_Witness ==
  /\ pc = "created"
  /\ Len(selected_tracks) = 201
  /\ selected_tracks[1].uri = selected_tracks[4].uri
  /\ Len(AddCalls) = 3
  /\ Len(AddCalls[3].args.items) = 1

\* C7: no call follows a call that failed, and the function returns only
\* when none failed; so after a failed identity lookup or playlist creation
\* there is no item-append call, and after a failed k-th item-append call
\* the remote playlist holds the URIs of batches 1..k-1 in order, which are
\* the first 100*(k-1) of the tracks' URIs.
C7_Failure ==
  /\ \A k \in 1..Len(pl_calls) : ~pl_calls[k].ok => k = Len(pl_calls)
  /\ (\E k \in 1..Len(pl_calls) : ~pl_calls[k].ok) <=> pc = "raised"
  /\ pc = "raised" =>
        LET last == pl_calls[Len(pl_calls)]
            k    == Len(AddCalls)
        IN  /\ last.op \in {"me", "create"} => AddCalls = <<>>
            /\ last.op = "add" =>
                  /\ remote_playlists[playlist.id].items = AppendedBy(k - 1)
                  /\ remote_playlists[playlist.id].items =
                       SubSeq(GivenUris, 1, 100 * (k - 1))

\* C7 witness: the third item-append call failed with two batches stored
C7_Witness ==
  /\ pc = "raised"
  /\ Len(AddCalls) = 3
  /\ ~AddCalls[3].ok
  /\ Len(remote_playlists[playlist.id].items) = 200

(***************************************************************************)
(* Properties of the entry points (under Spec).                            *)
(***************************************************************************)
\* the invocation that started last
LastRun == history[Len(history)]

\* the count the user gave to the invocation that started last
CountText == Get(form, "num_tracks", <<"0">>)

\* the export of the most recent invocation that created its playlist, as
\* the session stores it; empty when there has been none
LatestExport ==
  LET good == {k \in 1..Len(history) : history[k].outcome = "created"}
  IN  IF good = {} THEN <<>>
      ELSE LET latest == CHOOSE k \in good : \A j \in good : j <= k
           IN  Utf8Decode(TracksToCsvBytes(history[latest].selected))

\* C8: create_playlist_for_tracks runs, and has made calls, only for a
\* non-empty selection; and an invocation whose sampler returned zero tracks
\* made no playlist call, left the remote playlists, the stored export and
\* the export file as they were, and told the user that no tracks matched,
\* with no playlist link and no download offered.
C8_EmptySelection ==
  /\ (pc \in {"me", "create", "add", "created"} \/ pl_calls # <<>>) =>
        selected_tracks # <<>>
  /\ (history # <<>> /\ LastRun.outcome = "created") => LastRun.selected # <<>>
  /\ (history # <<>> /\ pc \in {"idle", "exit"} /\ selected_tracks = <<>>
        /\ LastRun.outcome # "remote_error" /\ LastRun.outcome # "value_error") =>
        /\ LastRun.outcome = "empty"
        /\ pl_calls = <<>>
        /\ remote_playlists = LastRun.playlists_before
        /\ Get(session, "csv_data", <<>>) = LastRun.csv_before
        /\ csv_file = <<>>
        /\ entry = "cli" =>
              reply = [kind |-> "printed",
                       text |-> "No tracks matched your keywords; no playlist was created."]
        /\ (entry = "web" /\ reply.route = "create_playlist") =>
              /\ reply.kind = "page"
              /\ reply.message = "No tracks matched your keywords. Try different keywords."
              /\ reply.playlist_url = <<>>
              /\ reply.show_download = FALSE
              /\ reply.tracks = <<>>

\* C8 witness: a web invocation with matching tracks and a count below one
\* ended with the "no tracks" page while the session held an earlier export
C8_Witness ==
  /\ entry = "web"
  /\ pc = "idle"
  /\ Len(history) = 2
  /\ LastRun.outcome = "empty"
  /\ filtered_tracks # <<>>
  /\ n < 0
  /\ LastRun.csv_before # <<>>
  /\ reply.route = "create_playlist"
  /\ reply.show_download = FALSE

\* C9 as stated: in every entry point, an invocation given a count that
\* does not parse as an integer does not fail on it: it calls the sampler
\* with N = 0 and ends with the empty selection.
C9_MalformedCount ==
  (/\ history # <<>>
   /\ pc \in {"idle", "exit"}
   /\ LastRun.outcome # "remote_error"
   /\ ~IntParses(CountText)) =>
     /\ LastRun.outcome = "empty"
     /\ n = 0
     /\ selected_tracks = <<>>
     /\ pl_calls = <<>>

\* C10: in the web application the session's csv_data is at all times the
\* export of the most recent invocation that ended "created" (absent when
\* there has been none), whatever later invocations ended with no tracks or
\* with a failure; an invocation ended "created" selected at least one
\* track and its playlist holds all their URIs; download_csv answers with
\* that export, and redirects only when there has been none.
C10_StoredExport ==
  entry = "web" =>
    /\ Get(session, "csv_data", <<>>) = LatestExport
    /\ \A k \in 1..Len(history) :
          history[k].outcome = "created" =>
            /\ history[k].selected # <<>>
            /\ remote_playlists[Len(history[k].playlists_before) + 1].items =
                 [j \in 1..Len(history[k].selected) |-> history[k].selected[j].uri]
    /\ (reply # <<>> /\ reply.route = "download_csv") =>
          IF LatestExport = <<>>
            THEN reply.kind = "redirect" /\ reply.to = "index"
            ELSE reply.kind = "file" /\ reply.body = Utf8Encode(LatestExport)

\* C10 witness: after an invocation that created a playlist and a later one
\* that found no tracks, download_csv answered with the first one's export
C10_Witness ==
  /\ entry = "web"
  /\ Len(history) = 2
  /\ history[1].outcome = "created"
  /\ history[2].outcome = "empty"
  /\ reply.route = "download_csv"
  /\ reply.kind = "file"
  /\ reply.body = TracksToCsvBytes(history[1].selected)

=============================================================================
